---- MODULE Spec2Model ----
(***************************************************************************)
(* A model of src/download.py: MoroccoSentinelDownloader (get_token,       *)
(* create_search_polygon, search_scenes, get_cloud_cover,                  *)
(* download_sentinel_images, download_product) and main.                   *)
(*                                                                         *)
(* The remote services (identity, catalogue, download endpoint) are the    *)
(* environment: every request's outcome is chosen with \E.  Cloud cover    *)
(* is counted in whole percent.  JSON values are tagged records so that    *)
(* float() is a real conversion that can fail.                             *)
(***************************************************************************)
EXTENDS Integers, Sequences, FiniteSets, TLC

\* ---------------------------------------------------------------- bounds
MaxRegions == 2     \* longest region list handed to download_sentinel_images
MaxProducts == 2    \* longest `value` list of a catalogue response
MaxChunks == 1      \* longest download body, in chunks
MaxFaults == 4     \* most requests the services fail in one run
MaxAttrs == 2       \* longest Attributes list of a record given to get_cloud_cover

\* ------------------------------------------------------ program constants
max_attempts == 3
max_retries == 3
wait_time_init == 30
retry_delay_init == 30
default_cloud_cover == 100
download_delay == 5
HTTP_OK == 200

\* ------------------------------------------------------------ JSON values
\* k: "absent" (key not in the mapping), "num", "str", "null";
\* a string is the sequence of its characters.
Absent == [k |-> "absent", n |-> 0, s |-> <<>>]
Null == [k |-> "null", n |-> 0, s |-> <<>>]
Num(i) == [k |-> "num", n |-> i, s |-> <<>>]
Str(chars) == [k |-> "str", n |-> 0, s |-> chars]

Digits == <<"0", "1", "2", "3", "4", "5", "6", "7", "8", "9">>
IsDigit(c) == \E i \in 1..10 : Digits[i] = c
DigitVal(c) == (CHOOSE i \in 1..10 : Digits[i] = c) - 1

RECURSIVE DecimalValue(_)
DecimalValue(chars) ==
    IF chars = <<>> THEN 0
    ELSE 10 * DecimalValue(SubSeq(chars, 1, Len(chars) - 1)) + DigitVal(chars[Len(chars)])

AllDigits(chars) == chars # <<>> /\ \A i \in 1..Len(chars) : IsDigit(chars[i])

\* float(x) as get_cloud_cover uses it: [ok, v]; ok = FALSE stands for the
\* ValueError (unparsable string) or TypeError (None) that float raises.
float(x) ==
    IF x.k = "num" THEN [ok |-> TRUE, v |-> x.n]
    ELSE IF x.k = "str" THEN
        IF AllDigits(x.s) THEN [ok |-> TRUE, v |-> DecimalValue(x.s)]
        ELSE IF Len(x.s) > 1 /\ x.s[1] = "-" /\ AllDigits(Tail(x.s))
             THEN [ok |-> TRUE, v |-> 0 - DecimalValue(Tail(x.s))]
        ELSE IF Len(x.s) > 1 /\ x.s[1] = "+" /\ AllDigits(Tail(x.s))
             THEN [ok |-> TRUE, v |-> DecimalValue(Tail(x.s))]
        ELSE [ok |-> FALSE, v |-> 0]
    ELSE [ok |-> FALSE, v |-> 0]

\* ------------------------------------------------------- product records
\* A catalogue record: Id, Name, and the three places cloud cover may be.
\* Properties.present / Attributes.present say whether the key is there.
NoProperties == [present |-> FALSE, cloudCover |-> Absent]
NoAttributes == [present |-> FALSE, items |-> <<>>]
Properties(v) == [present |-> TRUE, cloudCover |-> v]
Attributes(items) == [present |-> TRUE, items |-> items]
Attr(name, v) == [Name |-> name, Value |-> v]

Product(id, name, cc, props, attrs) ==
    [Id |-> id, Name |-> name, CloudCover |-> cc, Properties |-> props, Attributes |-> attrs]

\* the except (ValueError, TypeError) clause of get_cloud_cover
FloatOrDefault(x) == IF float(x).ok THEN float(x).v ELSE default_cloud_cover

\* attr.get('Value', 100)
AttrValue(attr) == IF attr.Value.k = "absent" THEN Num(default_cloud_cover) ELSE attr.Value

CloudCoverAttrs(items) == {i \in 1..Len(items) : items[i].Name = "cloudCover"}

\* a faulty variant: a failed conversion falls through to the next metadata shape
get_cloud_cover_fallthrough(product) ==
    IF product.CloudCover.k # "absent" /\ float(product.CloudCover).ok
        THEN float(product.CloudCover).v
    ELSE IF product.Properties.present /\ product.Properties.cloudCover.k # "absent"
            /\ float(product.Properties.cloudCover).ok
        THEN float(product.Properties.cloudCover).v
    ELSE IF product.Attributes.present /\ CloudCoverAttrs(product.Attributes.items) # {}
        THEN LET i == CHOOSE j \in CloudCoverAttrs(product.Attributes.items) :
                        \A m \in CloudCoverAttrs(product.Attributes.items) : j <= m
             IN FloatOrDefault(AttrValue(product.Attributes.items[i]))
    ELSE default_cloud_cover

get_cloud_cover(product) ==
    IF product.CloudCover.k # "absent"
        THEN FloatOrDefault(product.CloudCover)
    ELSE IF product.Properties.present /\ product.Properties.cloudCover.k # "absent"
        THEN FloatOrDefault(product.Properties.cloudCover)
    ELSE IF product.Attributes.present /\ CloudCoverAttrs(product.Attributes.items) # {}
        THEN LET i == CHOOSE j \in CloudCoverAttrs(product.Attributes.items) :
                        \A m \in CloudCoverAttrs(product.Attributes.items) : j <= m
             IN FloatOrDefault(AttrValue(product.Attributes.items[i]))
    ELSE default_cloud_cover

\* ------------------------------------------------------------- regions
None == <<>>

region_bounds(region) ==
    IF region = "north"
        THEN [min_lon |-> -7, max_lon |-> -1, min_lat |-> 32, max_lat |-> 36]
    ELSE IF region = "central"
        THEN [min_lon |-> -13, max_lon |-> -2, min_lat |-> 29, max_lat |-> 32]
    ELSE [min_lon |-> -13, max_lon |-> -1, min_lat |-> 26, max_lat |-> 29]

known_regions == {"north", "central", "south"}

\* a faulty variant: an unknown name gets the last table entry instead of None
create_search_polygon_nocheck(region) ==
    LET b == region_bounds(region) IN
    << <<b.min_lon, b.min_lat>>, <<b.max_lon, b.min_lat>>, <<b.max_lon, b.max_lat>>,
       <<b.min_lon, b.max_lat>>, <<b.min_lon, b.min_lat>> >>

\* a faulty variant: the ring goes round the box the other way and ends on
\* its fourth corner
create_search_polygon_open(region) ==
    IF region \notin known_regions THEN None
    ELSE LET b == region_bounds(region) IN
         << <<b.min_lon, b.min_lat>>, <<b.min_lon, b.max_lat>>, <<b.max_lon, b.max_lat>>,
            <<b.max_lon, b.min_lat>>, <<b.max_lon, b.min_lat>> >>

\* the ring of the POLYGON((...)) text, as <<lon, lat>> pairs; None if unknown
create_search_polygon(region) ==
    IF region \notin known_regions THEN None
    ELSE LET b == region_bounds(region) IN
         << <<b.min_lon, b.min_lat>>, <<b.max_lon, b.min_lat>>, <<b.max_lon, b.max_lat>>,
            <<b.min_lon, b.max_lat>>, <<b.min_lon, b.min_lat>> >>

\* ---------------------------------------------------------------- sorted
\* a faulty variant: an element goes before the elements of equal key
RECURSIVE InsertBeforeEqual(_, _)
InsertBeforeEqual(sorted, p) ==
    IF sorted = <<>> THEN <<p>>
    ELSE IF get_cloud_cover(sorted[Len(sorted)]) < get_cloud_cover(p)
        THEN Append(sorted, p)
    ELSE Append(InsertBeforeEqual(SubSeq(sorted, 1, Len(sorted) - 1), p), sorted[Len(sorted)])

\* sorted(products, key=get_cloud_cover): a stable sort, as insertion of
\* each element after every element whose key is not greater.
RECURSIVE InsertByKey(_, _)
InsertByKey(sorted, p) ==
    IF sorted = <<>> THEN <<p>>
    ELSE IF get_cloud_cover(sorted[Len(sorted)]) <= get_cloud_cover(p)
        THEN Append(sorted, p)
    ELSE Append(InsertByKey(SubSeq(sorted, 1, Len(sorted) - 1), p), sorted[Len(sorted)])

RECURSIVE sorted_by_cloud_cover(_)
sorted_by_cloud_cover(ps) ==
    IF ps = <<>> THEN <<>>
    ELSE InsertByKey(sorted_by_cloud_cover(SubSeq(ps, 1, Len(ps) - 1)), ps[Len(ps)])

\* ------------------------------------------------------------------ state
VARIABLES
    pc,                  \* where the program is
    regions,             \* download_sentinel_images' regions argument
    ri,                  \* index in regions of the region being processed
    token, headers,      \* self.token, and the token self.headers carries
    dirs,                \* directories the run has created
    total_products, downloaded_products,
    products,            \* what search_scenes returned to the orchestrator
    sorted_products, pi, \* the sorted list and the index of the current product
    attempt,             \* the loop variable of search_scenes / download_product
    wait_time, retry_delay,
    response,            \* the catalogue's answer to the latest GET
    s_ret, d_ret,        \* return values of search_scenes / download_product
    output_file,         \* the file at <region_dir>/<product name>.zip
    file0,               \* that file as it was when download_product was called
    callLog,             \* requests, sleeps and refreshes of the call in progress
    sent,                \* the token the latest request carried
    statuses,            \* the statuses the GETs of the call in progress got
    last_open,           \* chunks written by the latest pass that opened the file, or -1
    returned_sum,        \* sum of the lengths of the lists search_scenes returned
    true_returns,        \* download_product calls that returned True
    not_true,            \* download_product calls that returned False or raised
    dlOrder,             \* products passed to download_product in this region
    searched,            \* regions search_scenes was called on, in call order
    faults,              \* requests the services have failed so far
    gap,                 \* time slept since download_product last ended
    footprint,           \* the polygon search_scenes built for its query
    auth_calls,          \* calls of get_token so far
    retries,             \* attempts after the first, of any call, so far
    summary,             \* the printed summary
    cc_product, cc_result, cc_pc   \* a direct call of get_cloud_cover

tokVars == <<token, headers>>
dsiVars == <<dirs, total_products, downloaded_products, products, sorted_products, pi, ri>>
callVars == <<attempt, wait_time, retry_delay, response, s_ret, d_ret, callLog, sent,
              statuses, last_open>>
fileVars == <<output_file, file0>>
ghostVars == <<returned_sum, true_returns, not_true, dlOrder, searched, gap>>
ccVars == <<cc_product, cc_result, cc_pc>>
reqVars == <<footprint, auth_calls, retries>>
vars == <<faults, pc, regions, tokVars, dsiVars, callVars, fileVars, ghostVars, summary, ccVars,
          reqVars>>

\* ------------------------------------------------------------ environment
\* a request that fails (f) counts against the services' failures
Fault(f) == IF f THEN faults < MaxFaults /\ faults' = faults + 1 ELSE faults' = faults

AuthStatuses == {200, 401}
\* 0: no response, the request (or the parsing of its body) raised
CatalogueStatuses == {200, 500, 0}
DownloadStatuses == {200, 500, 0}

\* names a caller may pass: known ones and one that is not configured
RegionNames == {"north", "atlantis"}
CallRegions == known_regions \cup {"atlantis"}
RegionLists == UNION {[1..n -> RegionNames] : n \in 1..MaxRegions}

\* the records the catalogue serves: the three metadata shapes, two of them
\* with the same cloud cover
ProductA == Product(1, "A", Num(50), NoProperties, NoAttributes)
ProductB == Product(2, "B", Absent, Properties(Num(5)), NoAttributes)
ProductC == Product(3, "C", Absent, NoProperties,
                    Attributes(<<Attr("other", Num(1)), Attr("cloudCover", Str(<<"5">>))>>))
Catalogue == {ProductA, ProductB, ProductC}

\* `value` lists: ids are unique within one response
ValueLists ==
    UNION {{v \in [1..n -> Catalogue] : \A i, j \in 1..n : i # j => v[i] # v[j]}
           : n \in 0..MaxProducts}

NoFile == [exists |-> FALSE, data |-> <<>>]
OldFile == [exists |-> TRUE, data |-> <<0>>]
Body(n) == [i \in 1..n |-> i]

\* a faulty variant: the file is opened for appending
open_ab(f) == [exists |-> TRUE, data |-> f.data]
\* open(output_file, 'wb')
open_wb(f) == [exists |-> TRUE, data |-> <<>>]
\* the f.write(chunk) loop over the first n chunks of the body
write_chunks(f, n) == [f EXCEPT !.data = f.data \o Body(n)]

Event(e, n) == [e |-> e, n |-> n]
NoResponse == [status |-> 0, value |-> <<>>]
NoSummary == [printed |-> FALSE, total |-> 0, downloaded |-> 0, failed |-> 0]

\* ------------------------------------------------------------------- Init
IdleCall ==
    /\ attempt = 0 /\ wait_time = 0 /\ retry_delay = 0 /\ response = NoResponse
    /\ s_ret = <<>> /\ d_ret = "none" /\ callLog = <<>>
    /\ sent = 0 /\ statuses = {} /\ last_open = -1

InitRun ==
    /\ token = 0 /\ headers = 0
    /\ dirs = {} /\ total_products = 0 /\ downloaded_products = 0
    /\ products = <<>> /\ sorted_products = <<>> /\ pi = 0 /\ ri = 0
    /\ IdleCall
    /\ output_file = NoFile /\ file0 = NoFile
    /\ returned_sum = 0 /\ true_returns = 0 /\ not_true = 0
    /\ dlOrder = <<>> /\ searched = <<>> /\ gap = 0 /\ faults = 0
    /\ footprint = None /\ auth_calls = 0 /\ retries = 0
    /\ summary = NoSummary

Init ==
    /\ pc = "main"
    /\ regions \in RegionLists
    /\ InitRun
    /\ cc_product = ProductA /\ cc_result = 0 /\ cc_pc = "idle"

\* ---------------------------------------------------------------- backoff
\* a faulty variant: the last attempt too is followed by a sleep, a refresh
\* and one more attempt
more_attempts_off_by_one(a, n) == a < n
\* if attempt < max_attempts - 1   /   if attempt < max_retries - 1
more_attempts(a, n) == a < n - 1

\* a faulty variant: the backoff doubles whatever the attempt
next_wait_double(w, a) == w * 2
\* wait_time *= (attempt + 1)   /   retry_delay *= (attempt + 1)
next_wait(w, a) == w * (a + 1)

\* ------------------------------------------------------------- get_token
\* a faulty variant: a refused request clears the header it could not renew
get_token_clearing(st, tok, hdr) ==
    IF st = HTTP_OK THEN [token |-> tok + 1, headers |-> tok + 1, raised |-> FALSE]
    ELSE [token |-> tok, headers |-> 0, raised |-> TRUE]
\* get_token when the identity endpoint answers st, self.token being tok and
\* the token of self.headers hdr: on 200 both become the token just issued
\* (one no earlier call got), otherwise the exception leaves both alone.
get_token(st, tok, hdr) ==
    IF st = HTTP_OK THEN [token |-> tok + 1, headers |-> tok + 1, raised |-> FALSE]
    ELSE [token |-> tok, headers |-> hdr, raised |-> TRUE]

\* ------------------------------------------------------------------ main
\* a faulty variant: __init__ logs the failure of get_token and goes on
ConstructLenient ==
    /\ pc = "main"
    /\ \E st \in AuthStatuses :
        LET r == get_token(st, token, headers) IN
        /\ Fault(st # HTTP_OK)
        /\ token' = r.token /\ headers' = r.headers
        /\ pc' = "dsi"
    /\ auth_calls' = auth_calls + 1
    /\ UNCHANGED <<regions, dsiVars, callVars, fileVars, ghostVars, summary, ccVars,
                   footprint, retries>>

\* MoroccoSentinelDownloader(username, password): get_token, and on its
\* failure the exception main catches.
Construct ==
    /\ pc = "main"
    /\ \E st \in AuthStatuses :
        LET r == get_token(st, token, headers) IN
        /\ Fault(st # HTTP_OK)
        /\ token' = r.token /\ headers' = r.headers
        /\ pc' = IF r.raised THEN "error" ELSE "dsi"
    /\ auth_calls' = auth_calls + 1
    /\ UNCHANGED <<regions, dsiVars, callVars, fileVars, ghostVars, summary, ccVars,
                   footprint, retries>>

\* download_sentinel_images up to its loop: the base directory, the counters
EnterDownloadSentinelImages ==
    /\ pc = "dsi"
    /\ dirs' = dirs \cup {"base"}
    /\ total_products' = 0 /\ downloaded_products' = 0
    /\ pc' = "regions"
    /\ UNCHANGED <<faults, regions, tokVars, products, sorted_products, pi, ri, callVars,
                   fileVars, ghostVars, summary, ccVars, reqVars>>

\* the head of `for region in regions`: the region's directory, then the
\* call of search_scenes (its locals set)
RegionBegin ==
    /\ pc = "regions" /\ ri < Len(regions)
    /\ ri' = ri + 1
    /\ dirs' = dirs \cup {regions[ri + 1]}
    /\ searched' = Append(searched, regions[ri + 1])
    /\ attempt' = 0 /\ wait_time' = wait_time_init
    /\ callLog' = <<>> /\ s_ret' = <<>> /\ response' = NoResponse /\ statuses' = {}
    /\ products' = <<>> /\ sorted_products' = <<>> /\ pi' = 0 /\ dlOrder' = <<>>
    /\ pc' = "search_try"
    /\ UNCHANGED <<faults, regions, tokVars, total_products, downloaded_products, retry_delay,
                   d_ret, sent, last_open, fileVars, returned_sum, true_returns, not_true, gap,
                   summary, ccVars, reqVars>>

\* the loop is over: the summary
PrintSummary ==
    /\ pc = "regions" /\ ri = Len(regions)
    /\ summary' = [printed |-> TRUE, total |-> total_products,
                   downloaded |-> downloaded_products,
                   failed |-> total_products - downloaded_products]
    /\ pc' = "done"
    /\ UNCHANGED <<faults, regions, tokVars, dsiVars, callVars, fileVars, ghostVars, ccVars,
                   reqVars>>

\* --------------------------------------------------------- search_scenes
\* a faulty variant: a 200 with an empty list is taken for a failure and retried
search_ok_nonempty(st, value) == st = HTTP_OK /\ value # <<>>
\* if response.status_code == 200 (the body parsed): the call returns
search_ok(st, value) == st = HTTP_OK

\* One pass of the try block: the polygon, then the GET and what it answers.
\* An unknown region returns [] before any request.
SearchAttempt ==
    /\ pc = "search_try"
    /\ IF create_search_polygon(regions[ri]) = None
       THEN /\ s_ret' = <<>> /\ faults' = faults
            /\ returned_sum' = returned_sum + 0
            /\ pc' = "search_ret"
            /\ UNCHANGED <<response, callLog, sent, statuses, retries>>
       ELSE \E st \in CatalogueStatuses : \E value \in ValueLists :
            /\ st # HTTP_OK => value = <<>>
            /\ Fault(st # HTTP_OK)
            /\ response' = [status |-> st, value |-> value]
            /\ callLog' = Append(callLog, Event("get", 0))
            /\ sent' = headers /\ statuses' = statuses \cup {st}
            /\ retries' = IF attempt > 0 THEN retries + 1 ELSE retries
            /\ IF search_ok(st, value)
               THEN /\ s_ret' = value
                    /\ returned_sum' = returned_sum + Len(value)
                    /\ pc' = "search_ret"
               ELSE /\ pc' = "search_except"
                    /\ UNCHANGED <<s_ret, returned_sum>>
    /\ footprint' = create_search_polygon(regions[ri])
    /\ UNCHANGED <<regions, tokVars, dsiVars, attempt, wait_time, retry_delay, d_ret,
                   last_open, fileVars, true_returns, not_true, dlOrder, searched, gap,
                   summary, ccVars, auth_calls>>

\* the except clause, attempt < max_attempts - 1: the backoff sleep
SearchBackoff ==
    /\ pc = "search_except" /\ more_attempts(attempt, max_attempts)
    /\ wait_time' = next_wait(wait_time, attempt)
    /\ callLog' = Append(callLog, Event("sleep", next_wait(wait_time, attempt)))
    /\ pc' = "search_refresh"
    /\ UNCHANGED <<faults, regions, tokVars, dsiVars, attempt, retry_delay, response, s_ret, d_ret,
                   sent, statuses, last_open, fileVars, ghostVars, summary, ccVars, reqVars>>

\* self.get_token() in the except clause.  Its exception is raised inside the
\* handler: nothing in search_scenes or download_sentinel_images catches it,
\* main does.
SearchRefresh ==
    /\ pc = "search_refresh"
    /\ \E st \in AuthStatuses :
        LET r == get_token(st, token, headers) IN
        /\ Fault(st # HTTP_OK)
        /\ token' = r.token /\ headers' = r.headers
        /\ callLog' = Append(callLog, Event("refresh", st))
        /\ IF r.raised
           THEN attempt' = attempt /\ pc' = "error"
           ELSE attempt' = attempt + 1 /\ pc' = "search_try"
    /\ auth_calls' = auth_calls + 1
    /\ UNCHANGED <<regions, dsiVars, wait_time, retry_delay, response, s_ret, d_ret, sent,
                   statuses, last_open, fileVars, ghostVars, summary, ccVars,
                   footprint, retries>>

\* the except clause on the last attempt: return []
SearchGiveUp ==
    /\ pc = "search_except" /\ ~more_attempts(attempt, max_attempts)
    /\ s_ret' = <<>>
    /\ returned_sum' = returned_sum + 0
    /\ pc' = "search_ret"
    /\ UNCHANGED <<faults, regions, tokVars, dsiVars, attempt, wait_time, retry_delay,
                   response, d_ret,
                   callLog, sent, statuses, last_open, fileVars, true_returns, not_true,
                   dlOrder, searched, gap, summary,
                   ccVars, reqVars>>

\* ------------------------------------------- download_sentinel_images body
\* a faulty variant: every region's count replaces the total
add_found_overwrite(total, found) == found
\* total_products += len(products)
add_found(total, found) == total + found

\* back in download_sentinel_images with the list: count and sort, or
\* "No products found"
AfterSearch ==
    /\ pc = "search_ret"
    /\ products' = s_ret
    /\ IF s_ret # <<>>
       THEN /\ total_products' = add_found(total_products, Len(s_ret))
            /\ sorted_products' = sorted_by_cloud_cover(s_ret)
            /\ pi' = 1
            /\ pc' = "products"
       ELSE /\ UNCHANGED <<total_products, sorted_products, pi>>
            /\ pc' = "regions"
    /\ attempt' = 0 /\ wait_time' = 0 /\ response' = NoResponse /\ callLog' = <<>>
    /\ s_ret' = <<>> /\ statuses' = {} /\ footprint' = None
    /\ UNCHANGED <<faults, regions, tokVars, dirs, downloaded_products, ri, retry_delay, d_ret,
                   sent, last_open, fileVars, ghostVars, summary, ccVars,
                   auth_calls, retries>>

\* the head of `for product in sorted_products`, the prints, and the call of
\* download_product (its locals set).  The file at the output path is
\* whatever an earlier run left there.
DownloadBegin ==
    /\ pc = "products" /\ pi <= Len(sorted_products)
    /\ dlOrder' = Append(dlOrder, sorted_products[pi])
    /\ attempt' = 0 /\ retry_delay' = retry_delay_init
    /\ callLog' = <<>> /\ d_ret' = "none" /\ statuses' = {} /\ last_open' = -1
    /\ \E f \in {NoFile, OldFile} : output_file' = f /\ file0' = f
    /\ pc' = "download_try"
    /\ UNCHANGED <<faults, regions, tokVars, dsiVars, wait_time, response, s_ret, sent,
                   returned_sum,
                   true_returns, not_true, searched, gap, summary, ccVars, reqVars>>

\* the product loop is over: next region
ProductsDone ==
    /\ pc = "products" /\ pi > Len(sorted_products)
    /\ pc' = "regions"
    /\ UNCHANGED <<faults, regions, tokVars, dsiVars, callVars, fileVars, ghostVars, summary,
                   ccVars, reqVars>>

\* ------------------------------------------------------ download_product
\* a faulty variant: the file is opened as soon as a response has arrived,
\* before raise_for_status
file_after_pass_open_first(f, st, w) ==
    IF st = 0 THEN f
    ELSE IF w = -1 THEN open_wb(f)
    ELSE write_chunks(open_wb(f), w)
\* the file after one pass of the try block: opened 'wb' and written only
\* when the pass got as far as `with open(...)`
file_after_pass(f, st, w) ==
    IF w = -1 THEN f
    ELSE write_chunks(open_wb(f), w)

\* One pass of the try block.  st is the status of the GET (0: it raised);
\* w is the number of chunks written before the pass ended, -1 when the
\* file was never opened (raise_for_status, a bad content-length, open
\* failing); complete says the body was written to its end.
DownloadAttempt ==
    /\ pc = "download_try"
    /\ \E st \in DownloadStatuses : \E w \in -1..MaxChunks : \E complete \in BOOLEAN :
        /\ st # HTTP_OK => w = -1
        /\ w = -1 => ~complete
        /\ Fault(~complete)
        /\ callLog' = Append(callLog, Event("get", 0))
        /\ sent' = headers /\ statuses' = statuses \cup {st}
        /\ last_open' = IF w = -1 THEN last_open ELSE w
        /\ output_file' = file_after_pass(output_file, st, w)
        /\ retries' = IF attempt > 0 THEN retries + 1 ELSE retries
        /\ IF complete
           THEN /\ d_ret' = "true"
                /\ true_returns' = true_returns + 1
                /\ pc' = "download_ret"
           ELSE /\ pc' = "download_except"
                /\ UNCHANGED <<d_ret, true_returns>>
    /\ UNCHANGED <<regions, tokVars, dsiVars, attempt, wait_time, retry_delay, response, s_ret,
                   file0, returned_sum, not_true, dlOrder, searched, gap, summary, ccVars,
                   footprint, auth_calls>>

\* the except clause, attempt < max_retries - 1: the backoff sleep
DownloadBackoff ==
    /\ pc = "download_except" /\ more_attempts(attempt, max_retries)
    /\ retry_delay' = next_wait(retry_delay, attempt)
    /\ callLog' = Append(callLog, Event("sleep", next_wait(retry_delay, attempt)))
    /\ pc' = "download_refresh"
    /\ UNCHANGED <<faults, regions, tokVars, dsiVars, attempt, wait_time, response, s_ret, d_ret,
                   sent, statuses, last_open, fileVars, ghostVars, summary, ccVars, reqVars>>

\* self.get_token() in the except clause.  Its exception leaves
\* download_product and is caught by the except clause of the product loop.
DownloadRefresh ==
    /\ pc = "download_refresh"
    /\ \E st \in AuthStatuses :
        LET r == get_token(st, token, headers) IN
        /\ Fault(st # HTTP_OK)
        /\ token' = r.token /\ headers' = r.headers
        /\ callLog' = Append(callLog, Event("refresh", st))
        /\ IF r.raised
           THEN /\ attempt' = attempt
                /\ d_ret' = "raised"
                /\ not_true' = not_true + 1
                /\ pc' = "download_ret"
           ELSE /\ attempt' = attempt + 1
                /\ pc' = "download_try"
                /\ UNCHANGED <<d_ret, not_true>>
    /\ auth_calls' = auth_calls + 1
    /\ UNCHANGED <<regions, dsiVars, wait_time, retry_delay, response, s_ret, sent, statuses,
                   last_open, fileVars, returned_sum, true_returns, dlOrder, searched, gap,
                   summary, ccVars, footprint, retries>>

\* a faulty variant: the failure path removes the partial file
DownloadGiveUpCleanup ==
    /\ pc = "download_except" /\ ~more_attempts(attempt, max_retries)
    /\ d_ret' = "false"
    /\ not_true' = not_true + 1
    /\ output_file' = NoFile
    /\ pc' = "download_ret"
    /\ UNCHANGED <<faults, regions, tokVars, dsiVars, attempt, wait_time, retry_delay,
                   response, s_ret,
                   callLog, sent, statuses, last_open, file0, returned_sum, true_returns,
                   dlOrder, searched, gap,
                   summary, ccVars, reqVars>>

\* the except clause on the last attempt: return False
DownloadGiveUp ==
    /\ pc = "download_except" /\ ~more_attempts(attempt, max_retries)
    /\ d_ret' = "false"
    /\ not_true' = not_true + 1
    /\ pc' = "download_ret"
    /\ UNCHANGED <<faults, regions, tokVars, dsiVars, attempt, wait_time, retry_delay,
                   response, s_ret,
                   callLog, sent, statuses, last_open, fileVars, returned_sum, true_returns,
                   dlOrder, searched, gap,
                   summary, ccVars, reqVars>>

\* a faulty variant: the product loop has no except clause, an exception of
\* download_product ends the run
AfterDownloadUncaught ==
    /\ pc = "download_ret"
    /\ downloaded_products' = IF d_ret = "true" THEN downloaded_products + 1
                              ELSE downloaded_products
    /\ gap' = IF d_ret = "raised" THEN 0 ELSE download_delay
    /\ pi' = pi + 1
    /\ attempt' = 0 /\ retry_delay' = 0 /\ callLog' = <<>> /\ d_ret' = "none"
    /\ statuses' = {} /\ last_open' = -1
    /\ output_file' = NoFile /\ file0' = NoFile
    /\ pc' = IF d_ret = "raised" THEN "error" ELSE "products"
    /\ UNCHANGED <<faults, regions, tokVars, dirs, total_products, products, sorted_products, ri,
                   wait_time, response, s_ret, sent, returned_sum, true_returns, not_true,
                   dlOrder, searched, summary, ccVars, reqVars>>

\* back in the product loop: the count, the delay (skipped when the call
\* raised), the next product
AfterDownload ==
    /\ pc = "download_ret"
    /\ downloaded_products' = IF d_ret = "true" THEN downloaded_products + 1
                              ELSE downloaded_products
    /\ gap' = IF d_ret = "raised" THEN 0 ELSE download_delay
    /\ pi' = pi + 1
    /\ attempt' = 0 /\ retry_delay' = 0 /\ callLog' = <<>> /\ d_ret' = "none"
    /\ statuses' = {} /\ last_open' = -1
    /\ output_file' = NoFile /\ file0' = NoFile
    /\ pc' = "products"
    /\ UNCHANGED <<faults, regions, tokVars, dirs, total_products, products, sorted_products, ri,
                   wait_time, response, s_ret, sent, returned_sum, true_returns, not_true,
                   dlOrder, searched, summary, ccVars, reqVars>>

\* ------------------------------------------------------------------- Spec
Next ==
    \/ Construct
    \/ EnterDownloadSentinelImages
    \/ RegionBegin
    \/ SearchAttempt
    \/ SearchBackoff
    \/ SearchRefresh
    \/ SearchGiveUp
    \/ AfterSearch
    \/ DownloadBegin
    \/ DownloadAttempt
    \/ DownloadBackoff
    \/ DownloadRefresh
    \/ DownloadGiveUp
    \/ AfterDownload
    \/ ProductsDone
    \/ PrintSummary

Spec == Init /\ [][Next]_vars

\* -------------------------------------------- get_cloud_cover, called alone
JsonValues ==
    {Absent, Null, Num(-5), Num(0), Num(30), Num(100), Num(150),
     Str(<<"7">>), Str(<<"4", "2">>), Str(<<"a">>), Str(<<>>)}
AttrValues == {Absent, Null, Num(12), Str(<<"9">>), Str(<<"x">>)}
AttrEntries == {Attr(name, v) : name \in {"cloudCover", "other"}, v \in AttrValues}
AttrLists == UNION {[1..n -> AttrEntries] : n \in 0..MaxAttrs}

PropertyValues == {Absent, Null, Num(55), Str(<<"6">>), Str(<<"b">>)}

CloudRecords ==
    {Product(1, "P", cc, props, attrs) :
        cc \in JsonValues,
        props \in {NoProperties} \cup {Properties(v) : v \in PropertyValues},
        attrs \in {NoAttributes} \cup {Attributes(items) : items \in AttrLists}}

InitCloud ==
    /\ pc = "idle"
    /\ regions = <<>>
    /\ InitRun
    /\ cc_product \in CloudRecords /\ cc_result = 0 /\ cc_pc = "call"

CallGetCloudCover ==
    /\ cc_pc = "call"
    /\ cc_result' = get_cloud_cover(cc_product)
    /\ cc_pc' = "done"
    /\ UNCHANGED <<faults, pc, regions, tokVars, dsiVars, callVars, fileVars, ghostVars, summary,
                   cc_product, reqVars>>

NextCloud == CallGetCloudCover

SpecCloud == InitCloud /\ [][NextCloud]_vars

\* ------------------------------ one call of search_scenes / download_product
\* A constructed downloader on which search_scenes(region, ...) or
\* download_product(product, output_dir) is called; the call's steps, up to
\* its return or its exception.
InitSearchCall ==
    /\ pc = "search_try"
    /\ \E r \in CallRegions : regions = <<r>> /\ searched = <<r>>
    /\ ri = 1
    /\ attempt = 0 /\ wait_time = wait_time_init /\ retry_delay = 0
    /\ products = <<>> /\ sorted_products = <<>> /\ pi = 0 /\ dlOrder = <<>>
    /\ output_file = NoFile /\ file0 = NoFile

InitDownloadCall ==
    /\ pc = "download_try"
    /\ regions = <<"north">> /\ searched = <<"north">> /\ ri = 1
    /\ attempt = 0 /\ wait_time = 0 /\ retry_delay = retry_delay_init
    /\ \E p \in Catalogue :
        products = <<p>> /\ sorted_products = <<p>> /\ dlOrder = <<p>>
    /\ pi = 1
    /\ output_file \in {NoFile, OldFile} /\ file0 = output_file

InitCall ==
    /\ token = 1 /\ headers = 1
    /\ dirs = {} /\ total_products = 0 /\ downloaded_products = 0
    /\ response = NoResponse /\ s_ret = <<>> /\ d_ret = "none" /\ callLog = <<>>
    /\ sent = 0 /\ statuses = {} /\ last_open = -1
    /\ returned_sum = 0 /\ true_returns = 0 /\ not_true = 0 /\ gap = 0 /\ faults = 0
    /\ footprint = None /\ auth_calls = 1 /\ retries = 0
    /\ summary = NoSummary
    /\ cc_product = ProductA /\ cc_result = 0 /\ cc_pc = "idle"
    /\ (InitSearchCall \/ InitDownloadCall)

NextCall ==
    \/ SearchAttempt
    \/ SearchBackoff
    \/ SearchRefresh
    \/ SearchGiveUp
    \/ DownloadAttempt
    \/ DownloadBackoff
    \/ DownloadRefresh
    \/ DownloadGiveUp

SpecCall == InitCall /\ [][NextCall]_vars

\* ================================================================= claims
Count(kind) == Cardinality({i \in DOMAIN callLog : callLog[i].e = kind})
RefreshFailed == \E i \in DOMAIN callLog : callLog[i].e = "refresh" /\ callLog[i].n # HTTP_OK
KnownRegion == ri \in DOMAIN regions /\ regions[ri] \in known_regions
InSearch == pc \in {"search_try", "search_except", "search_refresh", "search_ret"}
InDownload == pc \in {"download_try", "download_except", "download_refresh", "download_ret"}
\* the exception main catches came out of search_scenes
SearchRaised == pc = "error" /\ ri > 0

\* C1: search_scenes never raises to its caller, whatever the catalogue and
\* the token refreshes answer: a call that has ended has returned a
\* sequence, the empty one when all 3 attempts failed.
C1_SearchNeverRaises ==
    /\ ~SearchRaised
    /\ (pc = "search_ret" /\ Count("get") = max_attempts /\ response.status # HTTP_OK)
          => s_ret = <<>>

\* C2: on a known region, a search whose first k GETs fail and whose GET
\* k+1 answers 200 has issued exactly k+1 GETs and k token refreshes and
\* returns the response's value list (an empty one too, with no further
\* retry); with 3 failed GETs it has issued 3 GETs and 2 refreshes.
C2_SearchCounts ==
    /\ (InSearch /\ pc # "search_ret" /\ callLog # <<>>) => response.status # HTTP_OK
    /\ (pc = "search_ret" /\ KnownRegion) =>
          /\ Count("get") \in 1..max_attempts
          /\ Count("refresh") = Count("get") - 1
          /\ ~RefreshFailed
          /\ response.status = HTTP_OK => s_ret = response.value
          /\ response.status # HTTP_OK =>
                /\ Count("get") = 3 /\ Count("refresh") = 2 /\ s_ret = <<>>

\* 500, 500, then 200 with an empty value: an empty result, 2 refreshes
C2_Witness ==
    /\ pc = "search_ret" /\ KnownRegion
    /\ Count("get") = 3 /\ Count("refresh") = 2
    /\ statuses = {500, 200}
    /\ response = [status |-> 200, value |-> <<>>]
    /\ s_ret = <<>>

WrittenBy(w) == [exists |-> TRUE, data |-> Body(w)]

\* C3: when every download attempt fails and the token refreshes succeed,
\* download_product has made exactly 3 attempts when it returns false, it
\* does not raise, and the file is as the last attempt that opened it left
\* it (untouched if none did): the failure path removes nothing.
C3_DownloadGivesUp ==
    /\ (pc = "download_ret" /\ d_ret = "false") =>
          /\ Count("get") = 3
          /\ ~RefreshFailed
          /\ output_file = IF last_open = -1 THEN file0 ELSE WrittenBy(last_open)
    /\ (pc = "download_ret" /\ d_ret = "raised") => RefreshFailed
    /\ (InDownload /\ pc # "download_ret") => Count("get") <= 3
    /\ (pc = "download_try" /\ Count("get") = 2 /\ ~RefreshFailed) => attempt = 2

\* the third attempt failed after writing a chunk; the chunk is on disk
C3_Witness ==
    /\ pc = "download_ret" /\ d_ret = "false"
    /\ Count("get") = 3
    /\ last_open = 1 /\ output_file = WrittenBy(1)

\* C4: in search_scenes and in download_product the events of a call are
\* GET, sleep(30), refresh, GET, sleep(60), refresh, GET and nothing more:
\* one sleep of 30*n then one refresh between failed attempt n and attempt
\* n+1, neither after the 3rd.
C4_BackoffPattern ==
    /\ Len(callLog) <= 7
    /\ \A i \in DOMAIN callLog :
          /\ i % 3 = 1 => callLog[i].e = "get"
          /\ i % 3 = 2 => callLog[i].e = "sleep" /\ callLog[i].n = 30 * ((i + 1) \div 3)
          /\ i % 3 = 0 => callLog[i].e = "refresh"
    /\ (pc \in {"search_ret", "download_ret"} /\ callLog # <<>> /\ ~RefreshFailed)
          => callLog[Len(callLog)].e = "get"
    /\ pc \in {"search_try", "download_try"} => Len(callLog) = 3 * attempt

C4_Witness ==
    /\ pc = "download_ret" /\ d_ret = "false"
    /\ Len(callLog) = 7
    /\ callLog[2] = Event("sleep", 30) /\ callLog[5] = Event("sleep", 60)

\* C5: for a region name that is not configured, create_search_polygon
\* returns no result and search_scenes returns an empty sequence on its
\* first attempt, with no GET, no token refresh and no sleep.
C5_UnknownRegion ==
    (InSearch /\ regions[ri] \notin known_regions) =>
        /\ create_search_polygon(regions[ri]) = None
        /\ callLog = <<>> /\ statuses = {}
        /\ attempt = 0
        /\ pc \in {"search_try", "search_ret"}
        /\ pc = "search_ret" => s_ret = <<>>

C5_Witness ==
    /\ pc = "search_ret" /\ regions[ri] = "atlantis"
    /\ s_ret = <<>> /\ callLog = <<>>

Occurrences(seq, x) == Cardinality({i \in DOMAIN seq : seq[i] = x})
Position(seq, x) == CHOOSE i \in DOMAIN seq : seq[i] = x
RegionProductsDone == pc = "products" /\ pi > Len(sorted_products)

\* C6: within one region download_product is called on the products in
\* non-decreasing order of get_cloud_cover, on every product the search
\* returned exactly once, and products of equal cloud cover keep the order
\* they had in the search response.
C6_DownloadOrder ==
    /\ \A i \in 1..(Len(dlOrder) - 1) :
          get_cloud_cover(dlOrder[i]) <= get_cloud_cover(dlOrder[i + 1])
    /\ \A x \in Catalogue : Occurrences(dlOrder, x) <= Occurrences(products, x)
    /\ RegionProductsDone =>
          \A x \in Catalogue : Occurrences(dlOrder, x) = Occurrences(products, x)
    /\ \A i, j \in DOMAIN products :
          (/\ i < j
           /\ get_cloud_cover(products[i]) = get_cloud_cover(products[j])
           /\ Occurrences(dlOrder, products[j]) > 0)
          => /\ Occurrences(dlOrder, products[i]) > 0
             /\ Position(dlOrder, products[i]) < Position(dlOrder, products[j])

\* the response listed the 50% product before the 5% one
C6_Witness ==
    /\ RegionProductsDone
    /\ products = <<ProductA, ProductB>>
    /\ dlOrder = <<ProductB, ProductA>>

\* C7: the summary's total is the sum of the lengths search_scenes
\* returned, its downloaded the number of download_product calls that
\* returned true, its failures the number of found products whose download
\* did not return true; 0 <= downloaded <= total throughout.
C7_Summary ==
    /\ 0 <= downloaded_products /\ downloaded_products <= total_products
    /\ summary.printed =>
          /\ summary.total = returned_sum
          /\ summary.downloaded = true_returns
          /\ summary.failed = summary.total - summary.downloaded
          /\ summary.failed = not_true

\* one region, 2 products (50% and 5%), every download succeeding
C7_Witness ==
    /\ summary.printed /\ Len(regions) = 1
    /\ products = <<ProductA, ProductB>>
    /\ summary = [printed |-> TRUE, total |-> 2, downloaded |-> 2, failed |-> 0]

\* C8: a run of download_sentinel_images that has ended has searched every
\* region of its list once, in list order, and has printed the summary,
\* whatever failed on the way (failed token refreshes included).
C8_EveryRegionThenSummary ==
    ("base" \in dirs /\ pc \in {"done", "error"}) =>
        /\ searched = regions
        /\ summary.printed

\* C9: get_cloud_cover takes the top-level CloudCover, else
\* Properties.cloudCover, else the first Attributes entry named cloudCover;
\* it returns that value as a number, and 100 when there is none or when
\* the value taken is not a number (no fall through to a later shape).
C9_CloudCoverOrder ==
    cc_pc = "done" =>
        LET p == cc_product
            top == p.CloudCover.k # "absent"
            prop == p.Properties.present /\ p.Properties.cloudCover.k # "absent"
            named == {i \in DOMAIN p.Attributes.items :
                         p.Attributes.items[i].Name = "cloudCover"}
            first == {i \in named : \A j \in named : i <= j}
            NumberOr100(x) == IF float(x).ok THEN float(x).v ELSE 100
        IN  /\ top => cc_result = NumberOr100(p.CloudCover)
            /\ (~top /\ prop) => cc_result = NumberOr100(p.Properties.cloudCover)
            /\ (~top /\ ~prop /\ p.Attributes.present) =>
                  /\ \A i \in first : cc_result = NumberOr100(p.Attributes.items[i].Value)
                  /\ first = {} => cc_result = 100
            /\ (~top /\ ~prop /\ ~p.Attributes.present) => cc_result = 100

\* a top-level value that is no number, a numeric Properties.cloudCover: 100
C9_Witness ==
    /\ cc_pc = "done"
    /\ cc_product.CloudCover = Str(<<"a">>)
    /\ cc_product.Properties = Properties(Num(55))
    /\ cc_result = 100

\* C10: the value get_cloud_cover produces lies in 0..100.
C10_CloudCoverRange == cc_pc = "done" => cc_result \in 0..100

\* the first get_token, the one __init__ makes, was refused
ConstructFailed == pc # "main" /\ token = 0

\* C11: when the identity endpoint refuses the first authentication,
\* constructing the downloader fails with an error and the run ends there:
\* no catalogue request, no download request, no directory created.
C11_AuthFailureAtStart ==
    ConstructFailed =>
        /\ pc = "error"
        /\ auth_calls = 1
        /\ dirs = {}
        /\ searched = <<>> /\ footprint = None
        /\ callLog = <<>> /\ statuses = {} /\ sent = 0 /\ retries = 0
        /\ output_file = NoFile
        /\ ~summary.printed

C11_Witness ==
    /\ pc = "error" /\ ri = 0
    /\ token = 0 /\ headers = 0 /\ auth_calls = 1
    /\ dirs = {}

\* search_scenes has built the polygon of its query
PolygonBuilt == InSearch /\ (pc # "search_try" \/ attempt > 0)

\* C12: for north, central and south create_search_polygon gives a ring of
\* exactly 5 points, the last one equal to the first, that visits the
\* corners of the region's box in the order (min_lon, min_lat),
\* (max_lon, min_lat), (max_lon, max_lat), (min_lon, max_lat).
C12_PolygonRing ==
    (PolygonBuilt /\ KnownRegion) =>
        LET b == region_bounds(regions[ri]) IN
        /\ footprint # None
        /\ Len(footprint) = 5
        /\ footprint[5] = footprint[1]
        /\ footprint[1] = <<b.min_lon, b.min_lat>>
        /\ footprint[2] = <<b.max_lon, b.min_lat>>
        /\ footprint[3] = <<b.max_lon, b.max_lat>>
        /\ footprint[4] = <<b.min_lon, b.max_lat>>
        /\ b.min_lon < b.max_lon /\ b.min_lat < b.max_lat
        /\ regions[ri] = "north" =>
              footprint = << <<-7, 32>>, <<-1, 32>>, <<-1, 36>>, <<-7, 36>>, <<-7, 32>> >>
        /\ regions[ri] = "central" =>
              footprint = << <<-13, 29>>, <<-2, 29>>, <<-2, 32>>, <<-13, 32>>, <<-13, 29>> >>

\* the ring of south
C12_Witness ==
    /\ pc = "search_ret" /\ regions[ri] = "south"
    /\ footprint = << <<-13, 26>>, <<-1, 26>>, <<-1, 29>>, <<-13, 29>>, <<-13, 26>> >>

\* C13: a download_product call that returned False or raised is not
\* counted as downloaded and does not end the loop: the loop moves to the
\* next product of the sorted list and calls download_product on it.
C13_FailureDoesNotStop ==
    [][/\ (pc = "download_ret" /\ d_ret \in {"false", "raised"}) =>
            /\ pc' = "products"
            /\ pi' = pi + 1
            /\ sorted_products' = sorted_products
            /\ downloaded_products' = downloaded_products
       /\ (pc = "products" /\ pi <= Len(sorted_products)) =>
            /\ pc' = "download_try"
            /\ dlOrder' = Append(dlOrder, sorted_products[pi])
            /\ callLog' = <<>>
      ]_vars

\* the first product's download raised; download_product runs on the second
C13_Witness ==
    /\ pc = "download_except" /\ pi = 2 /\ Len(dlOrder) = 2
    /\ not_true = 1 /\ true_returns = 0 /\ gap = 0
    /\ downloaded_products = 0
    /\ Len(searched) = 1

\* C14: a 5 unit sleep follows every download_product call, whatever its
\* outcome: when download_product is called on a product that is not the
\* first of its region, 5 units at least have passed in sleep since the
\* previous call ended.
C14_DelayAfterEveryDownload ==
    (InDownload /\ pi > 1) => gap >= download_delay

\* C15: an attempt whose response has a non-success status fails before the
\* file is opened: as long as no attempt of a download_product call got a
\* success status, the file at the output path is as it was when the call
\* began, not created if it was absent, its contents the same if it was not.
C15_NonSuccessLeavesFile ==
    (InDownload /\ statuses # {} /\ HTTP_OK \notin statuses) =>
        /\ output_file = file0
        /\ last_open = -1

\* three 500s on a path that held a file
C15_Witness ==
    /\ pc = "download_ret" /\ d_ret = "false"
    /\ Count("get") = 3 /\ statuses = {500}
    /\ file0 = OldFile /\ output_file = OldFile

\* C16: when download_product returns True the file holds the chunks of
\* the successful attempt's response, in order, and nothing else: what
\* was at the path before, and what earlier attempts of the call wrote, is
\* gone, each attempt opening the file truncated.
C16_FileIsLastResponse ==
    (pc = "download_ret" /\ d_ret = "true") =>
        /\ last_open \in 0..MaxChunks
        /\ output_file.exists
        /\ output_file.data = Body(last_open)
        /\ Len(output_file.data) = last_open
        /\ \A i \in DOMAIN output_file.data : output_file.data[i] = i

\* success on the third attempt, on a path that held a file
C16_Witness ==
    /\ pc = "download_ret" /\ d_ret = "true"
    /\ Count("get") = 3 /\ statuses = {HTTP_OK}
    /\ file0 = OldFile
    /\ output_file = [exists |-> TRUE, data |-> <<1>>]

\* the latest event of the call in progress is a request
JustRequested == callLog # <<>> /\ callLog[Len(callLog)].e = "get"
RunEnded == pc \in {"done", "error"}

\* C17: every catalogue or download request carries the token of the most
\* recent successful authentication; a retried request carries the token
\* the refresh before it obtained, never the one the failed attempt
\* carried; and when a run has ended get_token has been called once for the
\* session start and once per retry performed.
C17_TokenOfLatestAuth ==
    /\ [](JustRequested => (sent = token /\ sent = headers /\ token > 0))
    /\ [][(pc \in {"search_try", "download_try"} /\ attempt > 0 /\ callLog' # callLog)
            => (sent' = token /\ sent' # sent)]_vars
    /\ [](RunEnded => auth_calls = 1 + retries)

\* the program runs on while it can: its steps are taken one after the other
SpecFair == Spec /\ WF_vars(Next)

RECURSIVE SleepSum(_)
SleepSum(log) ==
    IF log = <<>> THEN 0
    ELSE SleepSum(SubSeq(log, 1, Len(log) - 1))
         + (IF log[Len(log)].e = "sleep" THEN log[Len(log)].n ELSE 0)

\* what is left of a search_scenes or download_product call
CallRank ==
    IF pc \in {"search_try", "download_try"} THEN 3 * (max_attempts - attempt) + 2
    ELSE IF pc \in {"search_except", "download_except"} THEN 3 * (max_attempts - attempt) + 1
    ELSE IF pc \in {"search_refresh", "download_refresh"} THEN 3 * (max_attempts - attempt)
    ELSE IF pc \in {"search_ret", "download_ret"} THEN 1
    ELSE 0

\* what is left of the run: regions, then products of the region, then steps
\* of the call
RunRank ==
    LET left == Len(regions) - ri IN
    IF RunEnded THEN <<0, 0, 0>>
    ELSE IF pc = "main" THEN <<2 * left + 3, 0, 0>>
    ELSE IF pc = "dsi" THEN <<2 * left + 2, 0, 0>>
    ELSE IF pc = "regions" THEN <<2 * left + 1, 0, 0>>
    ELSE IF InSearch THEN <<2 * left + 2, 0, CallRank>>
    ELSE IF pc = "products" THEN <<2 * left + 1, 2 * (Len(sorted_products) - pi + 1) + 1, 0>>
    ELSE <<2 * left + 1, 2 * (Len(sorted_products) - pi) + 2, CallRank>>

LexLess(x, y) ==
    \/ x[1] < y[1]
    \/ x[1] = y[1] /\ x[2] < y[2]
    \/ x[1] = y[1] /\ x[2] = y[2] /\ x[3] < y[3]

\* C18: a run on finite lists ends: every step brings it nearer its end
\* and, its steps being taken while there is one to take, it reaches it
\* (done, or the error exit of main).  Within one
\* search_scenes call (one per region) there are at most 3 catalogue GETs,
\* within one download_product call (one per found product) at most 3
\* download GETs, and within either at most 2 token refreshes and at most
\* 90 units of backoff sleep.
C18_TerminatesWithinBounds ==
    /\ [](/\ Count("get") <= 3
          /\ Count("refresh") <= 2
          /\ SleepSum(callLog) <= 90
          /\ Len(searched) = ri /\ ri <= Len(regions)
          /\ Len(dlOrder) <= Len(products)
          /\ \A i \in 1..3 : RunRank[i] \in Nat)
    /\ [][LexLess(RunRank', RunRank)]_vars
    /\ <>RunEnded

\* a download that slept 30 + 60 and failed a third time
C18_Witness ==
    /\ pc = "download_ret" /\ d_ret = "false"
    /\ Count("get") = 3 /\ Count("refresh") = 2 /\ SleepSum(callLog) = 90

\* C19: a token refresh the identity endpoint refuses leaves self.token and
\* the Authorization header as they were; the two change only in a refresh
\* answered 200, and then both, to the same new token.
C19_FailedRefreshKeepsToken ==
    [][LET last == callLog'[Len(callLog')]
           refreshed == Len(callLog') = Len(callLog) + 1 /\ last.e = "refresh"
       IN  /\ (refreshed /\ last.n # HTTP_OK) => (token' = token /\ headers' = headers)
           /\ (token' # token \/ headers' # headers) =>
                 /\ refreshed /\ last.n = HTTP_OK
                 /\ token' # token /\ headers' # headers
                 /\ headers' = token'
      ]_vars

\* a first refresh answered 200, a second one refused: the token of the first
C19_Witness ==
    /\ pc = "download_ret" /\ d_ret = "raised"
    /\ Count("refresh") = 2 /\ callLog[Len(callLog)] = Event("refresh", 401)
    /\ token = 2 /\ headers = 2

====
